---- MODULE Spec2Model ----
(***************************************************************************)
(* Model of src/app.py: a Streamlit quiz page.  Every user interaction     *)
(* reruns the script once; one action below is one such run, from the      *)
(* widget event that triggers it to the end of the handler.                *)
(*                                                                         *)
(* Strings are sequences of one-character strings.  None/True/False of     *)
(* last_is_correct are the strings "None", "True", "False".                *)
(***************************************************************************)
EXTENDS Integers, Sequences, FiniteSets, TLC

VARIABLES
    quiz_data,        \* st.session_state.quiz_data
    current_index,    \* st.session_state.current_index
    score,            \* st.session_state.score
    wrong_answers,    \* st.session_state.wrong_answers
    quiz_started,     \* st.session_state.quiz_started
    submitted,        \* st.session_state.submitted
    last_is_correct,  \* st.session_state.last_is_correct
    default_key,      \* OPENAI_API_KEY of the environment is non-empty
    api_key,          \* the sidebar field holds a non-empty key (client is not None)
    uploaded_file,    \* value of the file_uploader widget
    answers,          \* history: the text of input q_i when question i was graded
    notices,          \* st.warning / st.error messages of the last run
    api_called,       \* the last run sent a request to the extraction service
    event             \* the interaction that triggered the last run, and its inputs

session == <<quiz_data, current_index, score, wrong_answers, quiz_started,
             submitted, last_is_correct>>
vars == <<quiz_data, current_index, score, wrong_answers, quiz_started,
          submitted, last_is_correct, default_key, api_key, uploaded_file,
          answers, notices, api_called, event>>

-----------------------------------------------------------------------------
(* Bounds of the model *)

MaxQuizLen == 2      \* entries in an extracted quiz (main specification)
MaxPages == 2        \* pages of an uploaded PDF
MaxAnswerLen == 3    \* characters typed as an answer (grading specification)
MaxFullLen == 2      \* characters of a full_name (grading specification)
MaxMeaningLen == 1   \* characters of a meaning (grading specification)

Alphabet == {"a", "A", "b", " "}
Whitespace == {" "}

Strs(n) == UNION {[1..k -> Alphabet] : k \in 0..n}

-----------------------------------------------------------------------------
(* Grading: the string functions of the submit handler *)

IsSpace(c) == c \in Whitespace

LowerChar(c) == IF c = "A" THEN "a" ELSE c

\* str.strip(): leading, then trailing whitespace removed
RECURSIVE LStrip(_)
LStrip(s) == IF s # <<>> /\ IsSpace(Head(s)) THEN LStrip(Tail(s)) ELSE s

RECURSIVE RStrip(_)
RStrip(s) ==
    IF s # <<>> /\ IsSpace(s[Len(s)]) THEN RStrip(SubSeq(s, 1, Len(s) - 1)) ELSE s

Strip(s) == RStrip(LStrip(s))

\* str.split(): the maximal runs of non-whitespace characters, in order
RECURSIVE SplitFrom(_, _, _)
SplitFrom(rest, word, words) ==
    LET closed == IF word = <<>> THEN words ELSE Append(words, word) IN
    IF rest = <<>> THEN closed
    ELSE IF IsSpace(Head(rest)) THEN SplitFrom(Tail(rest), <<>>, closed)
    ELSE SplitFrom(Tail(rest), Append(word, Head(rest)), words)

Split(text) == SplitFrom(text, <<>>, <<>>)

\* "".join(words)
RECURSIVE Join(_)
Join(words) == IF words = <<>> THEN <<>> ELSE Head(words) \o Join(Tail(words))

\* str.lower()
RECURSIVE Lower(_)
Lower(s) == IF s = <<>> THEN <<>> ELSE <<LowerChar(Head(s))>> \o Lower(Tail(s))

\* clean without its split and join
clean_keeps_whitespace(text) == Lower(text)

\* clean without its .lower()
clean_keeps_case(text) == Join(Split(text))

clean(text) == Lower(Join(Split(text)))

\* needle == hay[:len(needle)]
StartsWith(hay, needle) ==
    /\ Len(needle) <= Len(hay)
    /\ SubSeq(hay, 1, Len(needle)) = needle

\* Python's `needle in hay` on strings: a scan over the start positions
RECURSIVE Contains(_, _)
Contains(hay, needle) ==
    \/ StartsWith(hay, needle)
    \/ hay # <<>> /\ Contains(Tail(hay), needle)

\* q.get(field, ''): an entry of the model carries "" for a missing field
correct_full_name(curr_q) == Strip(curr_q.full_name)
correct_meaning(curr_q) == Strip(curr_q.meaning)

is_correct(user_answer, curr_q) ==
    LET user_clean == clean(user_answer)
        full_clean == clean(correct_full_name(curr_q))
        meaning_clean == clean(correct_meaning(curr_q))
    IN  Contains(user_clean, full_clean) /\ Contains(user_clean, meaning_clean)

\* wrong_record whose expected display leaves out the meaning
wrong_record_without_meaning(user_answer, curr_q) ==
    [abbr |-> curr_q.abbr,
     user_answer |-> user_answer,
     expected |-> correct_full_name(curr_q),
     meaning |-> correct_meaning(curr_q)]

wrong_record(user_answer, curr_q) ==
    [abbr |-> curr_q.abbr,
     user_answer |-> user_answer,
     expected |-> correct_full_name(curr_q) \o <<" ", "(">>
                     \o correct_meaning(curr_q) \o <<")">>,
     meaning |-> correct_meaning(curr_q)]

-----------------------------------------------------------------------------
(* Inputs *)

Entry(a, f, m) == [abbr |-> a, full_name |-> f, meaning |-> m]

\* entries of the main specification: one with both fields, one whose
\* full_name is missing and whose meaning carries surrounding whitespace
Pool == {Entry(<<"A", "b">>, <<"A", " ", "b">>, <<"b">>),
         Entry(<<"b">>, <<>>, <<" ", "a">>)}

Quizzes(n) == UNION {[1..k -> Pool] : k \in 0..n}

\* texts typed in the main specification: blank ones, right and wrong ones
Typed == {<<>>, <<" ">>, <<"a", "b">>, <<"b">>, <<" ", "A", " ">>}

NoFile == [type |-> "none", readable |-> FALSE, pages |-> 0]

Files ==
    {[type |-> "pdf", readable |-> TRUE, pages |-> n] : n \in 1..MaxPages}
    \cup {[type |-> "pdf", readable |-> FALSE, pages |-> 0],
          [type |-> "image", readable |-> TRUE, pages |-> 1]}

\* What the extraction service does with a request: the call raises, the
\* content is not JSON, a JSON object without "data", a JSON object with a
\* "data" list, a top-level JSON array.
Failures == {[kind |-> k, data |-> <<>>] : k \in {"error", "nonjson", "nokey"}}

Responses ==
    Failures \cup {[kind |-> k, data |-> q] :
                      k \in {"object", "array"}, q \in Quizzes(MaxQuizLen)}

GradeResponses ==
    {[kind |-> "object", data |-> <<Entry(<<"b">>, f, m)>>] :
        f \in Strs(MaxFullLen), m \in Strs(MaxMeaningLen)}

NoEvent == [op |-> "load", kind |-> "-", images |-> 0, produced |-> 0]

-----------------------------------------------------------------------------
(* Session state *)

init_session_state ==
    [quiz_data |-> <<>>, current_index |-> 0, score |-> 0,
     wrong_answers |-> <<>>, quiz_started |-> FALSE, submitted |-> FALSE,
     last_is_correct |-> "None"]

Init ==
    /\ quiz_data = init_session_state.quiz_data
    /\ current_index = init_session_state.current_index
    /\ score = init_session_state.score
    /\ wrong_answers = init_session_state.wrong_answers
    /\ quiz_started = init_session_state.quiz_started
    /\ submitted = init_session_state.submitted
    /\ last_is_correct = init_session_state.last_is_correct
    /\ default_key \in BOOLEAN
    /\ api_key = default_key
    /\ uploaded_file = NoFile
    /\ answers = <<>>
    /\ notices = {}
    /\ api_called = FALSE
    /\ event = NoEvent

\* the branch of the page the script renders
Branch ==
    IF ~quiz_started THEN "NotStarted"
    ELSE IF current_index < Len(quiz_data) THEN "InProgress"
    ELSE "Finished"

-----------------------------------------------------------------------------
(* Utility and AI functions *)

\* a client built whether or not the field holds a key
client_always == TRUE

client == api_key

Event(op, kind, images, produced) ==
    [op |-> op, kind |-> kind, images |-> images, produced |-> produced]

\* One image per page of a PDF, the file itself otherwise; any exception is
\* reported with st.error and gives the empty list.
process_uploaded_file(file) ==
    IF ~file.readable THEN [image_list |-> <<>>, error |-> TRUE]
    ELSE IF file.type = "pdf"
         THEN [image_list |-> [page \in 1..file.pages |-> page], error |-> FALSE]
         ELSE [image_list |-> <<1>>, error |-> FALSE]

\* The value returned for the service's answer r: None (none = TRUE) without
\* a client or on any exception, else data.get("data", []) of an object and
\* the array itself of an array.  The images take no part in the decision.
parse_vocabulary_with_ai(images, r) ==
    IF ~client
    THEN [none |-> TRUE, data |-> <<>>, called |-> FALSE, error |-> FALSE]
    ELSE IF r.kind \in {"error", "nonjson"}
    THEN [none |-> TRUE, data |-> <<>>, called |-> TRUE, error |-> TRUE]
    ELSE IF r.kind = "nokey"
    THEN [none |-> FALSE, data |-> <<>>, called |-> TRUE, error |-> FALSE]
    ELSE [none |-> FALSE, data |-> r.data, called |-> TRUE, error |-> FALSE]

\* `if data is not None:` in place of `if data:`
TruthyNotNone(res) == ~res.none

\* `if data:` is false for None and for the empty list
Truthy(res) == ~res.none /\ res.data # <<>>

-----------------------------------------------------------------------------
(* The interactions *)

\* The user picks, replaces or removes the file of the uploader, which is
\* rendered only before the quiz starts.
UploadFile(files) ==
    /\ ~quiz_started
    /\ \E f \in files \cup {NoFile} :
        /\ f # uploaded_file
        /\ uploaded_file' = f
    /\ notices' = {}
    /\ api_called' = FALSE
    /\ event' = Event("upload", "-", 0, 0)
    /\ UNCHANGED <<session, default_key, api_key, answers>>

\* The user edits the key of the sidebar, rendered on every page.
SetApiKey ==
    /\ api_key' = ~api_key
    /\ notices' = {}
    /\ api_called' = FALSE
    /\ event' = Event("set_key", "-", 0, 0)
    /\ UNCHANGED <<session, default_key, uploaded_file, answers>>

\* The start button, with the service answering r to a request.
StartQuiz(responses) ==
    /\ ~quiz_started
    /\ uploaded_file # NoFile
    /\ \E r \in responses :
        LET file == process_uploaded_file(uploaded_file)
            res == parse_vocabulary_with_ai(file.image_list, r)
        IN  /\ IF Truthy(res)
               THEN /\ quiz_data' = res.data
                    /\ quiz_started' = TRUE
                    /\ uploaded_file' = NoFile
               ELSE UNCHANGED <<quiz_data, quiz_started, uploaded_file>>
            /\ notices' = (IF file.error THEN {"file_error"} ELSE {})
                            \cup (IF res.error THEN {"ai_error"} ELSE {})
            /\ api_called' = res.called
            /\ event' = Event("start",
                              IF res.called THEN r.kind ELSE "nocall",
                              Len(file.image_list),
                              IF res.called THEN Len(r.data) ELSE 0)
    /\ UNCHANGED <<current_index, score, wrong_answers, submitted,
                   last_is_correct, default_key, api_key, answers>>

\* record_grade with `score += 1` placed before the test
record_grade_scores_always(user_answer, curr_q, text) ==
    /\ submitted' = TRUE
    /\ score' = score + 1
    /\ IF is_correct(user_answer, curr_q)
       THEN /\ last_is_correct' = "True"
            /\ UNCHANGED wrong_answers
       ELSE /\ last_is_correct' = "False"
            /\ wrong_answers' =
                 Append(wrong_answers, wrong_record(user_answer, curr_q))
    /\ answers' = Append(answers, text)
    /\ notices' = {}

\* record_grade with the record inserted at the head of wrong_answers
record_grade_prepends(user_answer, curr_q, text) ==
    /\ submitted' = TRUE
    /\ IF is_correct(user_answer, curr_q)
       THEN /\ last_is_correct' = "True"
            /\ score' = score + 1
            /\ UNCHANGED wrong_answers
       ELSE /\ last_is_correct' = "False"
            /\ wrong_answers' =
                 <<wrong_record(user_answer, curr_q)>> \o wrong_answers
            /\ UNCHANGED score
    /\ answers' = Append(answers, text)
    /\ notices' = {}

\* record_grade that takes the blank branch: the warning, nothing graded
record_grade_only_warns(user_answer, curr_q, text) ==
    /\ notices' = {"warning"}
    /\ UNCHANGED <<submitted, last_is_correct, score, wrong_answers, answers>>

\* A non-blank answer is graded: the flag, the score or the wrong-answer
\* list; `text` is what the input held.
record_grade(user_answer, curr_q, text) ==
    /\ submitted' = TRUE
    /\ IF is_correct(user_answer, curr_q)
       THEN /\ last_is_correct' = "True"
            /\ score' = score + 1
            /\ UNCHANGED wrong_answers
       ELSE /\ last_is_correct' = "False"
            /\ wrong_answers' =
                 Append(wrong_answers, wrong_record(user_answer, curr_q))
            /\ UNCHANGED score
    /\ answers' = Append(answers, text)
    /\ notices' = {}

\* reject_blank with `submitted = True` set before the blank test
reject_blank_marks_submitted ==
    /\ notices' = {"warning"}
    /\ submitted' = TRUE
    /\ UNCHANGED <<last_is_correct, score, wrong_answers, answers>>

\* A blank answer is refused with a warning.
reject_blank ==
    /\ notices' = {"warning"}
    /\ UNCHANGED <<submitted, last_is_correct, score, wrong_answers, answers>>

\* SubmitAnswer with its button outside the `if not submitted` test
SubmitAnswerUngated(texts) ==
    /\ Branch = "InProgress"
    /\ \E text \in texts :
        LET user_answer == Strip(text)
            curr_q == quiz_data[current_index + 1]
        IN  IF user_answer # <<>>
            THEN record_grade(user_answer, curr_q, text)
            ELSE reject_blank
    /\ api_called' = FALSE
    /\ event' = Event("submit", "-", 0, 0)
    /\ UNCHANGED <<quiz_data, current_index, quiz_started, default_key,
                   api_key, uploaded_file>>

\* The submit button with `text` in the input of the current question.
SubmitAnswer(texts) ==
    /\ Branch = "InProgress"
    /\ ~submitted
    /\ \E text \in texts :
        LET user_answer == Strip(text)
            curr_q == quiz_data[current_index + 1]
        IN  IF user_answer # <<>>
            THEN record_grade(user_answer, curr_q, text)
            ELSE reject_blank
    /\ api_called' = FALSE
    /\ event' = Event("submit", "-", 0, 0)
    /\ UNCHANGED <<quiz_data, current_index, quiz_started, default_key,
                   api_key, uploaded_file>>

\* NextQuestion with its button outside the `else` of the submitted test
NextQuestionUngated ==
    /\ Branch = "InProgress"
    /\ current_index' = current_index + 1
    /\ submitted' = FALSE
    /\ last_is_correct' = "None"
    /\ notices' = {}
    /\ api_called' = FALSE
    /\ event' = Event("next", "-", 0, 0)
    /\ UNCHANGED <<quiz_data, score, wrong_answers, quiz_started, default_key,
                   api_key, uploaded_file, answers>>

\* NextQuestion with its button on the final page too
NextQuestionUnbounded ==
    /\ quiz_started
    /\ submitted \/ Branch = "Finished"
    /\ current_index' = current_index + 1
    /\ submitted' = FALSE
    /\ last_is_correct' = "None"
    /\ notices' = {}
    /\ api_called' = FALSE
    /\ event' = Event("next", "-", 0, 0)
    /\ UNCHANGED <<quiz_data, score, wrong_answers, quiz_started, default_key,
                   api_key, uploaded_file, answers>>

\* NextQuestion that wraps around to the first question after the last
NextQuestionWraps ==
    /\ Branch = "InProgress"
    /\ submitted
    /\ current_index' = (current_index + 1) % Len(quiz_data)
    /\ submitted' = FALSE
    /\ last_is_correct' = "None"
    /\ notices' = {}
    /\ api_called' = FALSE
    /\ event' = Event("next", "-", 0, 0)
    /\ UNCHANGED <<quiz_data, score, wrong_answers, quiz_started, default_key,
                   api_key, uploaded_file, answers>>

\* NextQuestion without `submitted = False`
NextQuestionKeepsSubmitted ==
    /\ Branch = "InProgress"
    /\ submitted
    /\ current_index' = current_index + 1
    /\ last_is_correct' = "None"
    /\ notices' = {}
    /\ api_called' = FALSE
    /\ event' = Event("next", "-", 0, 0)
    /\ UNCHANGED <<quiz_data, score, wrong_answers, quiz_started, submitted,
                   default_key, api_key, uploaded_file, answers>>

\* The next-question button, rendered once the question is graded.
NextQuestion ==
    /\ Branch = "InProgress"
    /\ submitted
    /\ current_index' = current_index + 1
    /\ submitted' = FALSE
    /\ last_is_correct' = "None"
    /\ notices' = {}
    /\ api_called' = FALSE
    /\ event' = Event("next", "-", 0, 0)
    /\ UNCHANGED <<quiz_data, score, wrong_answers, quiz_started, default_key,
                   api_key, uploaded_file, answers>>

\* ResetQuiz that clears the started flag and the position only
ResetQuizKeepsResults ==
    /\ Branch = "Finished"
    /\ quiz_started' = init_session_state.quiz_started
    /\ current_index' = init_session_state.current_index
    /\ submitted' = init_session_state.submitted
    /\ last_is_correct' = init_session_state.last_is_correct
    /\ api_key' \in {api_key, default_key}
    /\ answers' = <<>>
    /\ notices' = {}
    /\ api_called' = FALSE
    /\ event' = Event("reset", "-", 0, 0)
    /\ UNCHANGED <<quiz_data, score, wrong_answers, default_key, uploaded_file>>

\* ResetQuiz with its button on the question page too
ResetQuizAnywhere ==
    /\ quiz_started
    /\ quiz_data' = init_session_state.quiz_data
    /\ current_index' = init_session_state.current_index
    /\ score' = init_session_state.score
    /\ wrong_answers' = init_session_state.wrong_answers
    /\ quiz_started' = init_session_state.quiz_started
    /\ submitted' = init_session_state.submitted
    /\ last_is_correct' = init_session_state.last_is_correct
    /\ api_key' \in {api_key, default_key}
    /\ answers' = <<>>
    /\ notices' = {}
    /\ api_called' = FALSE
    /\ event' = Event("reset", "-", 0, 0)
    /\ UNCHANGED <<default_key, uploaded_file>>

\* The back-to-start button of the final page: every key of the session
\* state is deleted and the rerun fills in the defaults.  The sidebar key
\* is one of the deleted keys: its field shows the typed key or falls back
\* to the environment's.
ResetQuiz ==
    /\ Branch = "Finished"
    /\ quiz_data' = init_session_state.quiz_data
    /\ current_index' = init_session_state.current_index
    /\ score' = init_session_state.score
    /\ wrong_answers' = init_session_state.wrong_answers
    /\ quiz_started' = init_session_state.quiz_started
    /\ submitted' = init_session_state.submitted
    /\ last_is_correct' = init_session_state.last_is_correct
    /\ api_key' \in {api_key, default_key}
    /\ answers' = <<>>
    /\ notices' = {}
    /\ api_called' = FALSE
    /\ event' = Event("reset", "-", 0, 0)
    /\ UNCHANGED <<default_key, uploaded_file>>

Next ==
    \/ UploadFile(Files)
    \/ SetApiKey
    \/ StartQuiz(Responses)
    \/ SubmitAnswer(Typed)
    \/ NextQuestion
    \/ ResetQuiz

Spec == Init /\ [][Next]_vars

\* the typed texts that are not blank
NonBlank == {t \in Typed : Strip(t) # <<>>}

\* A user who keeps going: a non-blank submit and the next button are each
\* taken eventually if they stay available.
SpecFair ==
    /\ Init
    /\ [][Next]_vars
    /\ WF_vars(SubmitAnswer(NonBlank))
    /\ WF_vars(NextQuestion)

\* The grader on every answer, full name and meaning within the bounds:
\* one-entry quizzes, with the key taken from the environment.
NextGrade ==
    \/ UploadFile({[type |-> "image", readable |-> TRUE, pages |-> 1]})
    \/ StartQuiz(GradeResponses)
    \/ SubmitAnswer(Strs(MaxAnswerLen))
    \/ NextQuestion
    \/ ResetQuiz

SpecGrade == Init /\ [][NextGrade]_vars

-----------------------------------------------------------------------------
(* The grading rule as the specification words it *)

\* every whitespace character removed, the rest lower-cased
Norm(s) ==
    LET kept == SelectSeq(s, LAMBDA c : c \notin Whitespace)
    IN  [i \in 1..Len(kept) |-> IF kept[i] = "A" THEN "a" ELSE kept[i]]

\* n is a contiguous substring of h
IsSubstring(n, h) ==
    \E i \in 0..(Len(h) - Len(n)) : \A j \in 1..Len(n) : h[i + j] = n[j]

Grade(S, F, M) ==
    IsSubstring(Norm(F), Norm(S)) /\ IsSubstring(Norm(M), Norm(S))

\* graded questions whose grade, by the rule above, is b
GradedWith(b) ==
    {i \in 1..Len(answers) :
        Grade(answers[i], quiz_data[i].full_name, quiz_data[i].meaning) = b}

-----------------------------------------------------------------------------
(* Properties *)

\* C1: in every reachable state score is the number of graded questions
\* whose grade is true, len(wrong_answers) the number of those whose grade
\* is false, and score + len(wrong_answers) = current_index + (1 if
\* submitted else 0).
ScoreInvariant ==
    /\ score = Cardinality(GradedWith(TRUE))
    /\ Len(wrong_answers) = Cardinality(GradedWith(FALSE))
    /\ score + Len(wrong_answers) = current_index + (IF submitted THEN 1 ELSE 0)

\* a finished two-question quiz with one right and one wrong answer
ScoreWitness ==
    /\ Branch = "Finished"
    /\ Len(quiz_data) = 2
    /\ score = 1
    /\ Len(wrong_answers) = 1

\* C2: the decision recorded by a submit is true exactly when the
\* normalised full name and the normalised meaning are both contiguous
\* substrings of the normalised answer (an empty one always is).
GradingDecision ==
    submitted =>
        /\ last_is_correct \in {"True", "False"}
        /\ (last_is_correct = "True") <=>
              Grade(answers[Len(answers)],
                    quiz_data[current_index + 1].full_name,
                    quiz_data[current_index + 1].meaning)

\* an answer accepted only because case and inner whitespace are ignored
GradingWitness ==
    /\ submitted
    /\ last_is_correct = "True"
    /\ quiz_data[1].full_name = <<"a", "b">>
    /\ quiz_data[1].meaning = <<"b">>
    /\ answers = << <<"A", " ", "b">> >>

\* C3: a submit whose text is empty after trimming changes no session
\* field, and leaves the question awaiting an answer with submit enabled.
BlankSubmitNoChange ==
    /\ [][notices' = {"warning"} => UNCHANGED session]_vars
    /\ [](notices = {"warning"} =>
            /\ Branch = "InProgress"
            /\ ~submitted
            /\ ENABLED SubmitAnswer(Typed))

\* a blank submit on the second question, after a right answer to the first
BlankSubmitWitness ==
    /\ notices = {"warning"}
    /\ event.op = "submit"
    /\ current_index = 1
    /\ score = 1

\* C4: the next-question button can fire only when submitted is true, and
\* current_index only increases past a question whose grade is recorded.
AdvanceOnlyGraded ==
    /\ [](ENABLED NextQuestion => submitted)
    /\ [][current_index' > current_index =>
            /\ submitted
            /\ score + Len(wrong_answers) = current_index + 1]_vars

\* the second advance of a quiz
AdvanceWitness ==
    /\ event.op = "next"
    /\ current_index = 2
    /\ Len(answers) = 2

\* C5: advancing from the last question gives the final page with
\* current_index = len(entries); the final page shows in no state with
\* current_index < len(entries); a one-entry quiz is finished after exactly
\* one graded submit and one advance.
FinishedAfterLast ==
    /\ [][(event'.op = "next" /\ current_index = Len(quiz_data) - 1) =>
            (Branch' = "Finished" /\ current_index' = Len(quiz_data'))]_vars
    /\ [](Branch = "Finished" => current_index = Len(quiz_data))
    /\ []((Branch = "Finished" /\ Len(quiz_data) = 1) =>
            (Len(answers) = 1 /\ score + Len(wrong_answers) = 1
               /\ current_index = 1))

\* the one-entry quiz answered right and advanced once
FinishedWitness ==
    /\ Branch = "Finished"
    /\ event.op = "next"
    /\ Len(quiz_data) = 1
    /\ score = 1
    /\ wrong_answers = <<>>

\* C6: reset from the final page leaves every session field at its initial
\* value: quiz_data empty, current_index 0, score 0, wrong_answers empty,
\* quiz_started false, submitted false, last_is_correct None.
ResetRestoresFresh ==
    [][(Branch = "Finished" /\ event'.op = "reset") =>
         /\ quiz_data' = <<>>
         /\ current_index' = 0
         /\ score' = 0
         /\ wrong_answers' = <<>>
         /\ quiz_started' = FALSE
         /\ submitted' = FALSE
         /\ last_is_correct' = "None"]_vars

\* a reset taken with a key typed over an environment without one
ResetWitness ==
    /\ event.op = "reset"
    /\ ~default_key
    /\ score = 0
    /\ quiz_data = <<>>

\* C7, as claimed: reset is enabled in every reachable state.
ResetFromAnyState == ENABLED ResetQuiz

\* C7, amended: reset is enabled exactly on the final page, and taking it
\* discards the session data and returns to the not-started page.
ResetOnlyWhenFinished ==
    /\ [](ENABLED ResetQuiz <=> Branch = "Finished")
    /\ [][event'.op = "reset" =>
            /\ Branch' = "NotStarted"
            /\ quiz_data' = <<>>
            /\ wrong_answers' = <<>>
            /\ answers' = <<>>
            /\ score' = 0]_vars

\* reset taken from the final page: the not-started page, without a reset
ResetTakenWitness ==
    /\ event.op = "reset"
    /\ Branch = "NotStarted"
    /\ uploaded_file = NoFile
    /\ ~ENABLED ResetQuiz

\* C8: 0 <= current_index <= len(entries) in every reachable state, and
\* the next-question button cannot fire when current_index = len(entries).
IndexBound ==
    /\ current_index \in 0..Len(quiz_data)
    /\ current_index = Len(quiz_data) => ~ENABLED NextQuestion

\* the end of a two-question quiz
IndexBoundWitness ==
    /\ quiz_started
    /\ Len(quiz_data) = 2
    /\ current_index = Len(quiz_data)

\* C9: a start whose extraction produces no entries (the call raises, the
\* content is not JSON, the object has no "data", the list is empty) changes
\* no session field, and start can be attempted again.
FailedStartNoOp ==
    /\ [][(event'.op = "start"
             /\ (event'.kind \in {"error", "nonjson", "nokey"}
                   \/ event'.produced = 0)) =>
            (UNCHANGED session /\ ~quiz_started')]_vars
    /\ []((event.op = "start" /\ ~quiz_started) => ENABLED StartQuiz(Responses))

\* a start answered with an empty "data" list
FailedStartWitness ==
    /\ event.op = "start"
    /\ event.kind = "object"
    /\ event.produced = 0
    /\ api_called
    /\ ~quiz_started

\* C10, as claimed: a start on a file that could not be decoded (no image)
\* changes no session field, whatever the service returns.
DecodeFailureHaltsStart ==
    [][(event'.op = "start" /\ event'.images = 0) => UNCHANGED session]_vars

\* C11: while no API key is configured no request is sent to the
\* extraction service and no step takes the session out of NotStarted.
NoKeyNoStart ==
    /\ [](api_called => api_key)
    /\ [][(~api_key /\ ~quiz_started) => (~quiz_started' /\ ~api_called')]_vars

\* the start button pressed with a file uploaded and no key
NoKeyWitness ==
    /\ event.op = "start"
    /\ event.kind = "nocall"
    /\ ~api_key
    /\ ~api_called
    /\ uploaded_file # NoFile
    /\ Branch = "NotStarted"

\* the other case of a letter of the alphabet
ToggleCase(c) == IF c = "a" THEN "A" ELSE IF c = "A" THEN "a" ELSE c

\* s with the case of one character changed, one whitespace character
\* inserted, or one whitespace character removed
Edits(s) ==
    {[s EXCEPT ![i] = ToggleCase(s[i])] : i \in 1..Len(s)}
    \cup {SubSeq(s, 1, i) \o <<" ">> \o SubSeq(s, i + 1, Len(s)) : i \in 0..Len(s)}
    \cup {SubSeq(s, 1, i - 1) \o SubSeq(s, i + 1, Len(s)) :
             i \in {j \in 1..Len(s) : s[j] \in Whitespace}}

\* C12: the grading result of an answer S against F and M is the result the
\* handler gives with the case of a character changed or a whitespace
\* character inserted or removed in S (S staying non-blank), in F or in M.
GradingInsensitive ==
    submitted =>
        LET S == answers[Len(answers)]
            q == quiz_data[current_index + 1]
            g == (last_is_correct = "True")
        IN  /\ \A S2 \in Edits(S) :
                 Strip(S2) # <<>> => is_correct(Strip(S2), q) = g
            /\ \A F2 \in Edits(q.full_name) :
                 is_correct(Strip(S), [q EXCEPT !.full_name = F2]) = g
            /\ \A M2 \in Edits(q.meaning) :
                 is_correct(Strip(S), [q EXCEPT !.meaning = M2]) = g

\* an answer with other case and an inner space, graded right against a
\* meaning that is only whitespace
InsensitiveWitness ==
    /\ submitted
    /\ last_is_correct = "True"
    /\ answers = << <<"A", " ", "b">> >>
    /\ quiz_data[1].full_name = <<"a", "b">>
    /\ quiz_data[1].meaning = <<" ">>

\* s without its leading and trailing whitespace
Trim(s) ==
    LET idx == {i \in 1..Len(s) : s[i] \notin Whitespace}
    IN  IF idx = {} THEN <<>>
        ELSE SubSeq(s, CHOOSE i \in idx : \A j \in idx : i <= j,
                       CHOOSE i \in idx : \A j \in idx : j <= i)

\* The effect of a step that grades the text it appended to the history,
\* the record of a wrong answer built from the entry's full name and
\* meaning as they are (trimmed = FALSE) or trimmed (trimmed = TRUE).
SubmitEffect(trimmed) ==
    LET q == quiz_data[current_index + 1]
        text == answers'[Len(answers')]
        g == Grade(text, q.full_name, q.meaning)
        F == IF trimmed THEN Trim(q.full_name) ELSE q.full_name
        M == IF trimmed THEN Trim(q.meaning) ELSE q.meaning
    IN  /\ Len(answers') = Len(answers) + 1
        /\ submitted'
        /\ last_is_correct' = (IF g THEN "True" ELSE "False")
        /\ current_index' = current_index
        /\ quiz_data' = quiz_data
        /\ IF g
           THEN score' = score + 1 /\ wrong_answers' = wrong_answers
           ELSE /\ score' = score
                /\ wrong_answers' =
                     Append(wrong_answers,
                            [abbr |-> q.abbr,
                             user_answer |-> Trim(text),
                             expected |-> F \o <<" ", "(">> \o M \o <<")">>,
                             meaning |-> M])

\* C13, as claimed: a non-blank submit either adds 1 to score or appends one
\* record with the entry's abbr, the trimmed answer, "{full_name} ({meaning})"
\* and the entry's meaning; submitted becomes true, last_is_correct the
\* grade, current_index and quiz_data stay.
SubmitEffectAsClaimed ==
    [][(event'.op = "submit" /\ "warning" \notin notices') =>
          SubmitEffect(FALSE)]_vars

\* C13, amended: the same, the record's expected display and meaning built
\* from the entry's full_name and meaning with leading and trailing
\* whitespace removed.
SubmitEffectTrimmed ==
    [][(event'.op = "submit" /\ "warning" \notin notices') =>
          SubmitEffect(TRUE)]_vars

\* a wrong answer to an entry whose meaning carries leading whitespace
SubmitEffectWitness ==
    /\ event.op = "submit"
    /\ submitted
    /\ last_is_correct = "False"
    /\ Len(wrong_answers) = 1
    /\ wrong_answers[1].meaning # quiz_data[current_index + 1].meaning

\* C14: right after every start that succeeds current_index = 0, score = 0,
\* wrong_answers is empty, submitted is false and the page shows the first
\* question.
StartAtFirstQuestion ==
    [][(event'.op = "start" /\ quiz_started') =>
         /\ current_index' = 0
         /\ score' = 0
         /\ wrong_answers' = <<>>
         /\ ~submitted'
         /\ last_is_correct' = "None"
         /\ Branch' = "InProgress"]_vars

\* a start from a two-page PDF answered with a top-level array of two entries
StartWitness ==
    /\ event.op = "start"
    /\ event.kind = "array"
    /\ event.images = 2
    /\ quiz_started
    /\ Len(quiz_data) = 2

\* C15: submit is enabled only while the question awaits its answer, and
\* from a graded question no step changes score, wrong_answers or
\* last_is_correct unless it moves to the next question.
GradedOnce ==
    /\ [](ENABLED SubmitAnswer(Typed) => ~submitted)
    /\ [][submitted =>
            \/ UNCHANGED <<score, wrong_answers, last_is_correct>>
            \/ current_index' = current_index + 1]_vars

\* a graded first question with the key edited afterwards
GradedOnceWitness ==
    /\ submitted
    /\ event.op = "set_key"
    /\ current_index = 0
    /\ Len(answers) = 1
    /\ ~ENABLED SubmitAnswer(Typed)

\* C16: the next-question step adds exactly 1 to current_index, sets
\* submitted to false and last_is_correct to None and leaves score,
\* wrong_answers and quiz_data alone; submitted is false after every step
\* that changes current_index.
AdvanceEffect ==
    /\ [][event'.op = "next" =>
            /\ current_index' = current_index + 1
            /\ ~submitted'
            /\ last_is_correct' = "None"
            /\ UNCHANGED <<score, wrong_answers, quiz_data>>]_vars
    /\ [][current_index' # current_index => ~submitted']_vars

\* the advance from a wrongly answered first question of two
AdvanceEffectWitness ==
    /\ event.op = "next"
    /\ current_index = 1
    /\ Len(quiz_data) = 2
    /\ Len(wrong_answers) = 1
    /\ last_is_correct = "None"

\* C17: on the final page submit, advance and start are not enabled, reset
\* is, and every step other than reset leaves the session fields, score,
\* wrong_answers, quiz_data and current_index among them, as they are.
FinishedUntilReset ==
    /\ [](Branch = "Finished" =>
            /\ ~ENABLED SubmitAnswer(Typed)
            /\ ~ENABLED NextQuestion
            /\ ~ENABLED StartQuiz(Responses)
            /\ ENABLED ResetQuiz)
    /\ [][Branch = "Finished" => (event'.op = "reset" \/ UNCHANGED session)]_vars

\* the final page of a two-question quiz, the key edited while it shows
FinishedStaysWitness ==
    /\ Branch = "Finished"
    /\ event.op = "set_key"
    /\ Len(quiz_data) = 2
    /\ score = 2

\* a is an initial part of b
IsPrefix(a, b) == Len(a) <= Len(b) /\ SubSeq(b, 1, Len(a)) = a

\* C18: across every step of a quiz run score does not decrease,
\* wrong_answers keeps its records in place and only grows at the end, and
\* quiz_data does not change; start is not enabled once the quiz has started.
RunMonotone ==
    /\ [][(quiz_started /\ quiz_started') =>
            /\ score' >= score
            /\ IsPrefix(wrong_answers, wrong_answers')
            /\ Len(wrong_answers') <= Len(wrong_answers) + 1
            /\ quiz_data' = quiz_data]_vars
    /\ [](quiz_started => ~ENABLED StartQuiz(Responses))

\* two different wrong records, in the order of the questions
RunMonotoneWitness ==
    /\ Branch = "Finished"
    /\ Len(wrong_answers) = 2
    /\ wrong_answers[1].abbr = quiz_data[1].abbr
    /\ wrong_answers[2].abbr = quiz_data[2].abbr
    /\ wrong_answers[1] # wrong_answers[2]

\* C19: with a user who keeps submitting non-blank answers and advancing, a
\* quiz in progress reaches the final page; it is there after exactly
\* len(entries) graded submits and len(entries) advances; a blank submit
\* moves nothing.
Progress ==
    /\ (Branch = "InProgress") ~> (Branch = "Finished")
    /\ [](Branch = "Finished" =>
            (Len(answers) = Len(quiz_data) /\ current_index = Len(quiz_data)))
    /\ [][notices' = {"warning"} =>
            UNCHANGED <<current_index, submitted, answers>>]_vars

\* the final page of a two-question quiz, both answers wrong
ProgressWitness ==
    /\ Branch = "Finished"
    /\ event.op = "next"
    /\ Len(quiz_data) = 2
    /\ Len(answers) = 2
    /\ score = 0

\* C20: whenever the quiz is started quiz_data is not empty, so the
\* progress fraction has a non-zero denominator and no final page shows for
\* zero entries.
StartedNonEmpty ==
    /\ quiz_started => Len(quiz_data) > 0
    /\ ~(Branch = "Finished" /\ Len(quiz_data) = 0)

\* the first question of a one-entry quiz, right after the start
StartedWitness ==
    /\ Branch = "InProgress"
    /\ event.op = "start"
    /\ event.kind = "object"
    /\ Len(quiz_data) = 1
    /\ current_index = 0

====
